---- MODULE Spec2Model ----
(***************************************************************************)
(* url2qrcode.py: main() reads settings.txt, validates the three settings, *)
(* builds the timestamped output path and runs                             *)
(* update_excel_with_qr_codes(), which appends a "QrCode" column of        *)
(* embedded QR images to a copy of the input workbook.                     *)
(*                                                                         *)
(* A string is a sequence of one-character strings.  A setting key, a      *)
(* column name and a URL are single atoms of such a sequence where nothing *)
(* in the code looks inside them.                                          *)
(***************************************************************************)
EXTENDS Integers, Sequences, FiniteSets, TLC

VARIABLES
    pc,               \* position in main / update_excel_with_qr_codes
    settingsTxt,      \* settings.txt on disk: [exists, lines]
    inputIsFile,      \* os.path.isfile(input_file)
    disk,             \* the workbook stored at input_file
    clock,            \* what datetime.now() returns
    settings,         \* main's `settings`: [none, d]
    output_path,      \* main's output_file_with_timestamp
    df,               \* the pandas data frame: [loaded, columns, urls]
    ws,               \* the openpyxl worksheet in memory
    max_column,       \* update_excel_with_qr_codes' max_column
    qrcode_column,    \* its qrcode_column, as the code point chr() was given
    index,            \* rows of df.iterrows() consumed so far
    total_records,
    qr_codes_created,
    exc,              \* the exception in flight or caught ("" when none)
    result,           \* the tuple update_excel_with_qr_codes returned
    saved,            \* the wb.save() calls made: <<[path, ws]>>
    inputReads,       \* times the input workbook was opened for reading
    console           \* the lines main printed

vars == <<pc, settingsTxt, inputIsFile, disk, clock, settings, output_path, df, ws,
          max_column, qrcode_column, index, total_records, qr_codes_created, exc,
          result, saved, inputReads, console>>

----------------------------------------------------------------------------
(* Bounds of the model *)

\* longest base name of output_file, before its extension
MaxBase == 2
\* most columns of the input sheet
MaxCols == 27
\* most data rows of the input sheet
MaxRows == 2
\* columns and rows of the input sheet in runs that start at main()
MainCols == 2
MainRows == 1

----------------------------------------------------------------------------
(* Strings *)

Range(s) == {s[i] : i \in 1..Len(s)}

RECURSIVE lstrip(_)
lstrip(s) == IF s # <<>> /\ Head(s) = " " THEN lstrip(Tail(s)) ELSE s

RECURSIVE rstripWs(_)
rstripWs(s) ==
    IF s # <<>> /\ s[Len(s)] = " " THEN rstripWs(SubSeq(s, 1, Len(s) - 1)) ELSE s

\* str.strip()
strip(s) == rstripWs(lstrip(s))

\* str.rstrip(chars): drops every trailing character that is in chars
RECURSIVE rstrip(_, _)
rstrip(s, chars) ==
    IF s # <<>> /\ s[Len(s)] \in Range(chars)
    THEN rstrip(SubSeq(s, 1, Len(s) - 1), chars)
    ELSE s

\* position of the first sep in s, 0 when there is none
RECURSIVE find(_, _, _)
find(s, sep, i) ==
    IF i > Len(s) THEN 0 ELSE IF s[i] = sep THEN i ELSE find(s, sep, i + 1)

\* str.split(sep, 1)
split1(s, sep) ==
    LET i == find(s, sep, 1)
    IN  IF i = 0 THEN <<s>> ELSE <<SubSeq(s, 1, i - 1), SubSeq(s, i + 1, Len(s))>>

startswith(s, c) == s # <<>> /\ Head(s) = c

XLSX == <<".", "x", "l", "s", "x">>

----------------------------------------------------------------------------
(* read_settings *)

NoneSettings == [none |-> TRUE, d |-> <<>>]

dictSet(d, k, v) == [x \in DOMAIN d \cup {k} |-> IF x = k THEN v ELSE d[x]]

\* settings.get(k): <<>> stands for None as well as for "", `not` tells neither apart
dictGet(d, k) == IF k \in DOMAIN d THEN d[k] ELSE <<>>

\* the loop over the file's lines; a line without "=" fails the unpacking of
\* split('=', 1), which the `except Exception` turns into None
RECURSIVE parseLines(_, _)
parseLines(lines, d) ==
    IF lines = <<>> THEN [none |-> FALSE, d |-> d]
    ELSE LET line == Head(lines)
             kv   == split1(strip(line), "=")
         IN  IF strip(line) # <<>> /\ ~startswith(line, "#")
             THEN IF Len(kv) # 2 THEN NoneSettings
                  ELSE parseLines(Tail(lines), dictSet(d, strip(kv[1]), strip(kv[2])))
             ELSE parseLines(Tail(lines), d)

read_settings(file) ==
    IF ~file.exists THEN NoneSettings ELSE parseLines(file.lines, <<>>)

K_INPUT  == <<"input_file">>
K_URLCOL == <<"url_column_name">>
K_OUTPUT == <<"output_file">>

\* the check of the settings with output_file forgotten
missingSettings_NoOutput(s) ==
    \/ dictGet(s.d, K_INPUT) = <<>>
    \/ dictGet(s.d, K_URLCOL) = <<>>

\* `not input_file or not url_column_name or not output_file`
missingSettings(s) ==
    \/ dictGet(s.d, K_INPUT) = <<>>
    \/ dictGet(s.d, K_URLCOL) = <<>>
    \/ dictGet(s.d, K_OUTPUT) = <<>>

----------------------------------------------------------------------------
(* datetime.now().strftime("%Y%m%d_%H%M%S") *)

Digits == <<"0", "1", "2", "3", "4", "5", "6", "7", "8", "9">>

RECURSIVE zeroPad(_, _)
zeroPad(n, width) ==
    IF width = 0 THEN <<>>
    ELSE zeroPad(n \div 10, width - 1) \o <<Digits[(n % 10) + 1]>>

strftime(t) ==
    zeroPad(t.Y, 4) \o zeroPad(t.m, 2) \o zeroPad(t.d, 2) \o <<"_">>
        \o zeroPad(t.H, 2) \o zeroPad(t.M, 2) \o zeroPad(t.S, 2)

\* f"{output_file.rstrip('.xlsx')}_{current_datetime}.xlsx"
outputFileWithTimestamp(output_file, t) ==
    rstrip(output_file, XLSX) \o <<"_">> \o strftime(t) \o XLSX

----------------------------------------------------------------------------
(* Cell values, fonts, alignments *)

\* a text cell: its text and its length in UTF-8 bytes; a cell left empty is read
\* by pandas as the float NaN
U1   == [nan |-> FALSE, text |-> "https://example.com/a", nbytes |-> 21]
U2   == [nan |-> FALSE, text |-> "https://example.com/b", nbytes |-> 21]
HUGE == [nan |-> FALSE, text |-> "https://example.com/?q=...", nbytes |-> 1274]
NAN  == [nan |-> TRUE, text |-> "", nbytes |-> 0]
X    == [nan |-> FALSE, text |-> "x", nbytes |-> 1]
EMPTY == [nan |-> TRUE, text |-> "", nbytes |-> 0]

CellValues == {U1, U2, HUGE, NAN}

\* Font(name=, bold=, size=, color=)
Font(name, bold, size, color) ==
    [name |-> name, bold |-> bold, size |-> size, color |-> color]

\* Alignment(horizontal=, vertical=, wrap_text=), "None" for an argument left out
Alignment(horizontal, vertical, wrap_text) ==
    [horizontal |-> horizontal, vertical |-> vertical, wrap_text |-> wrap_text]

DefaultFont == Font("Calibri", FALSE, 11, "theme1")
DefaultAlignment == Alignment("None", "None", "None")

PlainStyle == [font |-> DefaultFont, alignment |-> DefaultAlignment]
FancyStyle == [font |-> Font("Arial", TRUE, 14, "FFFF0000"),
               alignment |-> Alignment("center", "top", "None")]
HeaderStyles == {PlainStyle, FancyStyle}

URL == <<"URL">>
QrCode == <<"QrCode">>

----------------------------------------------------------------------------
(* Workbooks *)

Max(S) == CHOOSE x \in S : \A y \in S : y <= x

\* a sheet of c columns and n data rows under a header row, the column named URL
\* at position p (0: no such column); column A's header has style hs1, the other
\* headers hs2
Sheet(c, p, n, urls, hs1, hs2) ==
    [cols  |-> [i \in 1..c |->
                  [name   |-> IF i = p THEN URL ELSE <<"Other">>,
                   font   |-> IF i = 1 THEN hs1.font ELSE hs2.font,
                   values |-> IF i = p THEN urls ELSE [k \in 1..n |-> X]]],
     align |-> [rc \in (1..(n + 1)) \X (1..c) |->
                  IF rc[1] = 1
                  THEN (IF rc[2] = 1 THEN hs1.alignment ELSE hs2.alignment)
                  ELSE DefaultAlignment],
     colWidth  |-> <<>>,
     rowHeight |-> <<>>,
     images    |-> <<>>]

NoSheet == [cols |-> <<>>, align |-> <<>>, colWidth |-> <<>>, rowHeight |-> <<>>,
            images |-> <<>>]

SrcPositions(c) == {0, 1, 2, c} \cap (0..c)

\* an empty URL cell needs another column to hold the row
UrlColumns(c, n) == [1..n -> IF c >= 2 THEN CellValues ELSE CellValues \ {NAN}]

Sheets(maxc, maxn, styles1, styles2) ==
    {Sheet(c, 0, n, <<>>, hs1, hs2) :
        c \in 1..maxc, n \in 0..maxn, hs1 \in styles1, hs2 \in styles2}
    \cup UNION {UNION {{Sheet(c, p, n, urls, hs1, hs2) :
                            urls \in UrlColumns(c, n), hs1 \in styles1, hs2 \in styles2} :
                        p \in SrcPositions(c) \ {0}, n \in 0..maxn} :
                c \in 1..maxc}

\* ws.max_column, ws.max_row
wsMaxColumn(w) == Len(w.cols)
wsMaxRow(w) == Max({rc[1] : rc \in DOMAIN w.align} \cup {1})

\* pd.read_excel: the header row names the columns, the rows below are the data
read_excel_df(sheet, col) ==
    LET names == [i \in 1..Len(sheet.cols) |-> sheet.cols[i].name]
        at    == {i \in 1..Len(sheet.cols) : sheet.cols[i].name = col}
        nrows == wsMaxRow(sheet) - 1
    IN  [loaded  |-> TRUE,
         columns |-> names,
         len     |-> nrows,
         urls    |-> IF at = {} THEN <<>>
                     ELSE sheet.cols[CHOOSE i \in at : \A j \in at : i <= j].values]

NoDf == [loaded |-> FALSE, columns |-> <<>>, len |-> 0, urls |-> <<>>]

\* read_excel without its check of the column
columnMissing_Unchecked(d, col) == FALSE

\* `url_column_name not in df.columns`
columnMissing(d, col) == col \notin Range(d.columns)

----------------------------------------------------------------------------
(* Column letters *)

ORD_A == 65

\* chr(ord('A') + max_column - 1), kept as the code point
columnLetter(maxcol) == ORD_A + maxcol - 1

\* openpyxl accepts a coordinate whose column part is made of letters, either case
validLetter(cp) == cp \in 65..90 \/ cp \in 97..122

\* the 1-based column a single valid letter names
letterIndex(cp) == IF cp \in 65..90 THEN cp - 64 ELSE cp - 96

----------------------------------------------------------------------------
(* generate_qr_code *)

\* bytes a version-40 symbol holds at error correction H; make(fit=True) grows
\* the version up to 40 and raises DataOverflowError beyond it
MaxQRBytes == 1273

\* add_data() encodes str(url)
toByteString(url) ==
    IF url.nan THEN [text |-> "nan", nbytes |-> 3]
    ELSE [text |-> url.text, nbytes |-> url.nbytes]

generate_qr_code(url, size) ==
    LET data == toByteString(url)
    IN  IF data.nbytes > MaxQRBytes
        THEN [ok |-> FALSE, img |-> [data |-> "", width |-> 0, height |-> 0]]
        ELSE [ok |-> TRUE,
              img |-> [data |-> data.text, width |-> size[1], height |-> size[2]]]

qr_code_img_size == 150
\* qr_code_img_size / 7 and qr_code_img_size / 0.75, as fractions
column_width == <<qr_code_img_size, 7>>
row_height == <<qr_code_img_size * 100, 75>>

----------------------------------------------------------------------------
(* Inputs *)

\* base names over two letters, with and without the extension
RECURSIVE Words(_)
Words(n) ==
    IF n = 0 THEN {<<>>}
    ELSE Words(n - 1) \cup {w \o <<ch>> : w \in Words(n - 1), ch \in {"a", "s"}}

OutputNames == {b \o e : b \in Words(MaxBase) \ {<<>>}, e \in {<<>>, XLSX}}

INPUT_NAME == <<"in.xlsx">>

\* what a settings line of key k can hold: no line, no value, a blank value, a value
Entries(k, values) ==
    {<<>>, <<k \o <<"=">>>>, <<k \o <<"=", " ">>>>}
        \cup {<<k \o <<" ", "=", " ">> \o v>> : v \in values}

\* lines that set nothing: an empty line, a comment, a line without "=", and a
\* comment that does not start the line
NoiseLines == {<<>>, <<"#", "c">>, <<"j", "u", "n", "k">>, <<" ", "#", "c">>}

GoodLines(name) ==
    <<K_INPUT \o <<"=">> \o INPUT_NAME, K_URLCOL \o <<"=">> \o URL,
      K_OUTPUT \o <<"=">> \o name>>

SettingsFiles ==
    {[exists |-> FALSE, lines |-> <<>>]}
    \cup {[exists |-> TRUE, lines |-> a \o b \o c] :
            a \in Entries(K_INPUT, {INPUT_NAME}),
            b \in Entries(K_URLCOL, {URL}),
            c \in Entries(K_OUTPUT, OutputNames)}
    \cup {[exists |-> TRUE, lines |-> <<n>> \o GoodLines(<<"a">> \o XLSX)] :
            n \in NoiseLines}

Clock1 == [Y |-> 2024, m |-> 1, d |-> 2, H |-> 3, M |-> 4, S |-> 5]
Clock2 == [Y |-> 2025, m |-> 12, d |-> 31, H |-> 23, M |-> 59, S |-> 59]
Clocks == {Clock1, Clock2}

\* main's locals, read from settings
input_file == dictGet(settings.d, K_INPUT)
url_column_name == dictGet(settings.d, K_URLCOL)
output_file == dictGet(settings.d, K_OUTPUT)

Line(kind, total, created) == [kind |-> kind, total |-> total, created |-> created]

----------------------------------------------------------------------------
(* Initial states *)

InitLocals ==
    /\ df = NoDf
    /\ ws = NoSheet
    /\ max_column = 0
    /\ qrcode_column = 0
    /\ index = 0
    /\ total_records = 0
    /\ qr_codes_created = 0
    /\ exc = ""
    /\ result = <<>>
    /\ saved = <<>>
    /\ inputReads = 0
    /\ console = <<>>

\* main() is entered
InitMain ==
    /\ pc = "main"
    /\ settingsTxt \in SettingsFiles
    /\ inputIsFile \in BOOLEAN
    /\ disk \in Sheets(MainCols, MainRows, {FancyStyle}, {PlainStyle})
    /\ clock \in Clocks
    /\ settings = NoneSettings
    /\ output_path = <<>>
    /\ InitLocals

\* main() has passed its checks and calls update_excel_with_qr_codes
Init ==
    /\ pc = "call"
    /\ settingsTxt = [exists |-> TRUE, lines |-> GoodLines(<<"a">> \o XLSX)]
    /\ inputIsFile = TRUE
    /\ disk \in Sheets(MaxCols, MaxRows, HeaderStyles, HeaderStyles)
    /\ clock = Clock1
    /\ settings = read_settings(settingsTxt)
    /\ output_path = outputFileWithTimestamp(output_file, clock)
    /\ InitLocals

----------------------------------------------------------------------------
(* main, lines 132-158 *)

\* settings = read_settings(settings_file); if settings is None: return
ReadSettings ==
    /\ pc = "main"
    /\ settings' = read_settings(settingsTxt)
    /\ IF settings'.none
       THEN /\ pc' = "done"
            /\ console' = Append(console,
                   Line(IF settingsTxt.exists THEN "Error reading settings"
                        ELSE "Error: The settings file does not exist", 0, 0))
       ELSE /\ pc' = "check_settings"
            /\ UNCHANGED console
    /\ UNCHANGED <<settingsTxt, inputIsFile, disk, clock, output_path, df, ws,
                   max_column, qrcode_column, index, total_records,
                   qr_codes_created, exc, result, saved, inputReads>>

\* if not input_file or not url_column_name or not output_file: print; return
CheckSettings ==
    /\ pc = "check_settings"
    /\ IF missingSettings(settings)
       THEN /\ pc' = "done"
            /\ console' = Append(console, Line("Error: Missing required settings", 0, 0))
       ELSE /\ pc' = "check_input"
            /\ UNCHANGED console
    /\ UNCHANGED <<settingsTxt, inputIsFile, disk, clock, settings, output_path, df,
                   ws, max_column, qrcode_column, index, total_records,
                   qr_codes_created, exc, result, saved, inputReads>>

\* if not os.path.isfile(input_file): print; return
CheckInputFile ==
    /\ pc = "check_input"
    /\ IF ~inputIsFile
       THEN /\ pc' = "done"
            /\ console' = Append(console, Line("Error: The file does not exist", 0, 0))
       ELSE /\ pc' = "timestamp"
            /\ UNCHANGED console
    /\ UNCHANGED <<settingsTxt, inputIsFile, disk, clock, settings, output_path, df,
                   ws, max_column, qrcode_column, index, total_records,
                   qr_codes_created, exc, result, saved, inputReads>>

\* current_datetime = ...; output_file_with_timestamp = ...
MakeOutputPath ==
    /\ pc = "timestamp"
    /\ output_path' = outputFileWithTimestamp(output_file, clock)
    /\ pc' = "call"
    /\ UNCHANGED <<settingsTxt, inputIsFile, disk, clock, settings, df, ws,
                   max_column, qrcode_column, index, total_records,
                   qr_codes_created, exc, result, saved, inputReads, console>>

----------------------------------------------------------------------------
(* update_excel_with_qr_codes, lines 66-129 *)

\* ws.cell(row=1, column=col, value=v): the header cell of a new trailing column
addHeaderCell(w, col, v, nrows) ==
    [w EXCEPT !.cols = Append(w.cols,
                          [name |-> v, font |-> DefaultFont,
                           values |-> [k \in 1..nrows |-> EMPTY]]),
              !.align = [rc \in DOMAIN w.align \cup {<<1, col>>} |->
                           IF rc \in DOMAIN w.align THEN w.align[rc]
                           ELSE DefaultAlignment]]

\* cell.alignment = a, the cell created when the sheet has none there
setAlignment(w, rc, a) ==
    [w EXCEPT !.align = [x \in DOMAIN w.align \cup {rc} |->
                           IF x = rc THEN a ELSE w.align[x]]]

\* the header cell the code takes for the URL column's: ws["A1"]
urlHeaderColumn(w) == 1

\* qr_code_header_cell.font = Font(...); .alignment = Alignment(...)
copyHeaderStyle(w, from, to) ==
    LET f == w.cols[from].font
        a == w.align[<<1, from>>]
        w1 == [w EXCEPT !.cols[to].font = Font(f.name, f.bold, f.size, f.color)]
    IN  setAlignment(w1, <<1, to>>, Alignment(a.horizontal, a.vertical, "None"))

\* the column whose cells get wrap_text: ws['A']
wrapColumn(w) == 1

\* for cell in ws['A']: cell.alignment = Alignment(wrap_text=True)
RECURSIVE wrapRows(_, _, _)
wrapRows(w, col, row) ==
    IF row = 0 THEN w
    ELSE wrapRows(setAlignment(w, <<row, col>>, Alignment("None", "None", "True")),
                  col, row - 1)

\* the anchor row without the header's offset
anchorRow_OffByOne(i) == i + 1

\* the row an image of data row i (0-based) is anchored at
anchorRow(i) == i + 2

\* the body of the loop for one row with its image made
placeImage(w, letter, i, img) ==
    LET w1 == setAlignment(w, <<anchorRow(i), letterIndex(letter)>>,
                           Alignment("center", "center", "None"))
    IN  [w1 EXCEPT !.images = Append(w.images,
                        [col |-> letter, row |-> anchorRow(i), img |-> img])]

\* df = read_excel(excel_path, url_column_name)
ReadExcel ==
    /\ pc = "call"
    /\ inputReads' = inputReads + 1
    /\ LET d == read_excel_df(disk, url_column_name)
       IN  IF columnMissing(d, url_column_name)
           THEN /\ exc' = "ValueError: Column not found"
                /\ pc' = "except"
                /\ UNCHANGED df
           ELSE /\ df' = d
                /\ pc' = "load"
                /\ UNCHANGED exc
    /\ UNCHANGED <<settingsTxt, inputIsFile, disk, clock, settings, output_path, ws,
                   max_column, qrcode_column, index, total_records,
                   qr_codes_created, result, saved, console>>

\* wb = load_workbook(); ws = wb.active; max_column; qrcode_column; ws.cell(...)
LoadAndAddHeader ==
    /\ pc = "load"
    /\ inputReads' = inputReads + 1
    /\ max_column' = wsMaxColumn(disk) + 1
    /\ qrcode_column' = columnLetter(max_column')
    /\ ws' = addHeaderCell(disk, max_column', QrCode, wsMaxRow(disk) - 1)
    /\ pc' = "header_style"
    /\ UNCHANGED <<settingsTxt, inputIsFile, disk, clock, settings, output_path, df,
                   index, total_records, qr_codes_created, exc, result, saved,
                   console>>

\* url_header_cell = ws["A1"]; qr_code_header_cell = ws[f'{qrcode_column}1']; the
\* font and the alignment copied.  The lookup raises on an invalid coordinate.
CopyHeaderStyle ==
    /\ pc = "header_style"
    /\ IF ~validLetter(qrcode_column)
       THEN /\ exc' = "ValueError: not a valid coordinate"
            /\ pc' = "except"
            /\ UNCHANGED ws
       ELSE /\ ws' = copyHeaderStyle(ws, urlHeaderColumn(ws), letterIndex(qrcode_column))
            /\ pc' = "sizes"
            /\ UNCHANGED exc
    /\ UNCHANGED <<settingsTxt, inputIsFile, disk, clock, settings, output_path, df,
                   max_column, qrcode_column, index, total_records,
                   qr_codes_created, result, saved, inputReads, console>>

\* the column's width and the data rows' heights
SetSizes ==
    /\ pc = "sizes"
    /\ ws' = [ws EXCEPT !.colWidth = dictSet(ws.colWidth, qrcode_column, column_width),
                        !.rowHeight = [r \in 2..(df.len + 1) |-> row_height]]
    /\ pc' = "wrap"
    /\ UNCHANGED <<settingsTxt, inputIsFile, disk, clock, settings, output_path, df,
                   max_column, qrcode_column, index, total_records,
                   qr_codes_created, exc, result, saved, inputReads, console>>

\* the wrap loop; total_records = len(df); qr_codes_created = 0
WrapText ==
    /\ pc = "wrap"
    /\ ws' = wrapRows(ws, wrapColumn(ws), wsMaxRow(ws))
    /\ total_records' = df.len
    /\ qr_codes_created' = 0
    /\ index' = 0
    /\ pc' = "loop"
    /\ UNCHANGED <<settingsTxt, inputIsFile, disk, clock, settings, output_path, df,
                   max_column, qrcode_column, exc, result, saved, inputReads,
                   console>>

\* the loop with a try/except around the row that skips a row that fails
ProcessRow_SkipFailed ==
    /\ pc = "loop"
    /\ index < df.len
    /\ LET url == df.urls[index + 1]
           qr  == generate_qr_code(url, <<qr_code_img_size, qr_code_img_size>>)
       IN  IF ~qr.ok
           THEN /\ index' = index + 1
                /\ UNCHANGED <<ws, qr_codes_created, pc, exc>>
           ELSE /\ ws' = placeImage(ws, qrcode_column, index, qr.img)
                /\ qr_codes_created' = qr_codes_created + 1
                /\ index' = index + 1
                /\ UNCHANGED <<pc, exc>>
    /\ UNCHANGED <<settingsTxt, inputIsFile, disk, clock, settings, output_path, df,
                   max_column, qrcode_column, total_records, result, saved,
                   inputReads, console>>

\* one iteration of `for index, row in df.iterrows()`
ProcessRow ==
    /\ pc = "loop"
    /\ index < df.len
    /\ LET url == df.urls[index + 1]
           qr  == generate_qr_code(url, <<qr_code_img_size, qr_code_img_size>>)
       IN  IF ~qr.ok
           THEN /\ exc' = "DataOverflowError"
                /\ pc' = "except"
                /\ UNCHANGED <<ws, qr_codes_created, index>>
           ELSE /\ ws' = placeImage(ws, qrcode_column, index, qr.img)
                /\ qr_codes_created' = qr_codes_created + 1
                /\ index' = index + 1
                /\ UNCHANGED <<pc, exc>>
    /\ UNCHANGED <<settingsTxt, inputIsFile, disk, clock, settings, output_path, df,
                   max_column, qrcode_column, total_records, result, saved,
                   inputReads, console>>

\* wb.save(output_excel_path); return total_records, qr_codes_created
SaveAndReturn ==
    /\ pc = "loop"
    /\ index = df.len
    /\ saved' = Append(saved, [path |-> output_path, sheet |-> ws])
    /\ result' = <<total_records, qr_codes_created>>
    /\ pc' = "summary"
    /\ UNCHANGED <<settingsTxt, inputIsFile, disk, clock, settings, output_path, df,
                   ws, max_column, qrcode_column, index, total_records,
                   qr_codes_created, exc, inputReads, console>>

----------------------------------------------------------------------------
(* main, lines 160-173 *)

\* the prints after the call returned
PrintSummary ==
    /\ pc = "summary"
    /\ console' = Append(console, Line("Process Completed", result[1], result[2]))
    /\ pc' = "wait"
    /\ UNCHANGED <<settingsTxt, inputIsFile, disk, clock, settings, output_path, df,
                   ws, max_column, qrcode_column, index, total_records,
                   qr_codes_created, exc, result, saved, inputReads>>

\* except Exception as e: print(f"An error occurred: {e}")
PrintError ==
    /\ pc = "except"
    /\ console' = Append(console, Line("An error occurred", 0, 0))
    /\ pc' = "wait"
    /\ UNCHANGED <<settingsTxt, inputIsFile, disk, clock, settings, output_path, df,
                   ws, max_column, qrcode_column, index, total_records,
                   qr_codes_created, exc, result, saved, inputReads>>

\* input("Press any key to close the console...")
PressKey ==
    /\ pc = "wait"
    /\ pc' = "done"
    /\ UNCHANGED <<settingsTxt, inputIsFile, disk, clock, settings, output_path, df,
                   ws, max_column, qrcode_column, index, total_records,
                   qr_codes_created, exc, result, saved, inputReads, console>>

----------------------------------------------------------------------------
(* Specifications *)

Next ==
    \/ ReadExcel
    \/ LoadAndAddHeader
    \/ CopyHeaderStyle
    \/ SetSizes
    \/ WrapText
    \/ ProcessRow
    \/ SaveAndReturn
    \/ PrintSummary
    \/ PrintError
    \/ PressKey

NextMain ==
    \/ ReadSettings
    \/ CheckSettings
    \/ CheckInputFile
    \/ MakeOutputPath
    \/ Next

\* a call of update_excel_with_qr_codes from main's try block
Spec == Init /\ [][Next]_vars

\* a run of main()
SpecMain == InitMain /\ [][NextMain]_vars

----------------------------------------------------------------------------
(* What the properties below speak of *)

\* the input table: its columns, the position of the column named by
\* url_column_name (0: none), its data rows and the values of that column
nCols == Len(disk.cols)
nRows == wsMaxRow(disk) - 1
srcPos ==
    IF \E i \in 1..nCols : disk.cols[i].name = url_column_name
    THEN CHOOSE i \in 1..nCols :
            /\ disk.cols[i].name = url_column_name
            /\ \A j \in 1..(i - 1) : disk.cols[j].name # url_column_name
    ELSE 0
srcValues == IF srcPos = 0 THEN <<>> ELSE disk.cols[srcPos].values

encodes(v) == generate_qr_code(v, <<qr_code_img_size, qr_code_img_size>>).ok
allEncode == \A k \in 1..Len(srcValues) : encodes(srcValues[k])
\* the first data row (1-based) whose value does not encode, 0 when all do
firstFailing ==
    IF allEncode THEN 0
    ELSE CHOOSE k \in 1..Len(srcValues) :
            /\ ~encodes(srcValues[k])
            /\ \A j \in 1..(k - 1) : encodes(srcValues[j])

sheetRows(w) == wsMaxRow(w)
sheetCols(w) == Len(w.cols)

ErrorLine == Line("An error occurred", 0, 0)
printedSummary == \E i \in 1..Len(console) : console[i].kind = "Process Completed"

----------------------------------------------------------------------------
(* C1 *)

\* C1: for every input table of n >= 0 data rows whose source column exists and
\* whose rows all encode, the run ends with the output saved exactly once, the
\* result (n, n), and a saved sheet of n + 1 rows and one column more than the input.
C1_RunSucceeds ==
    (pc = "done" /\ srcPos # 0 /\ allEncode) =>
        /\ Len(saved) = 1
        /\ result = <<nRows, nRows>>
        /\ sheetRows(saved[1].sheet) = nRows + 1
        /\ sheetCols(saved[1].sheet) = nCols + 1

----------------------------------------------------------------------------
(* C2 *)

\* C2: when url_column_name names no column of the input table, the run fails with
\* the column-not-found error before the sheet is touched: the workbook is never
\* loaded, no header, style, size or image is set, nothing is saved or returned.
C2_ColumnNotFoundBeforeMutation ==
    (srcPos = 0 /\ pc # "call") =>
        /\ pc \in {"except", "wait", "done"}
        /\ exc = "ValueError: Column not found"
        /\ ws = NoSheet
        /\ max_column = 0
        /\ saved = <<>>
        /\ result = <<>>
        /\ inputReads = 1
        /\ ~printedSummary

C2_Witness ==
    /\ srcPos = 0
    /\ nCols >= 2
    /\ pc = "done"
    /\ exc = "ValueError: Column not found"
    /\ console = <<ErrorLine>>

----------------------------------------------------------------------------
(* C3 *)

\* C3: when some row does not encode, the run aborts at the first such row k: rows
\* before k are the only ones processed, nothing is saved, nothing is returned,
\* and main prints one error line and no summary.
C3_AbortAtFirstFailingRow ==
    (srcPos # 0 /\ firstFailing > 0) =>
        /\ index <= firstFailing - 1
        /\ Len(ws.images) <= firstFailing - 1
        /\ qr_codes_created <= firstFailing - 1
        /\ saved = <<>>
        /\ result = <<>>
        /\ ~printedSummary
        /\ pc # "summary"
        /\ (exc = "DataOverflowError" =>
                /\ index = firstFailing - 1
                /\ Len(ws.images) = firstFailing - 1)
        /\ (pc = "done" => console = <<ErrorLine>>)
        /\ (pc = "done" /\ validLetter(columnLetter(nCols + 1))
                => exc = "DataOverflowError")

C3_Witness ==
    /\ srcPos # 0
    /\ nRows = 2
    /\ firstFailing = 1
    /\ encodes(srcValues[2])
    /\ exc = "DataOverflowError"
    /\ pc = "done"
    /\ console = <<ErrorLine>>

----------------------------------------------------------------------------
(* C4 *)

\* the images registered are those of rows 0 .. index-1, in that order, each
\* anchored at row i + 2 of the destination column and encoding its row's value
C4_ImagesInOrder ==
    df.loaded =>
        /\ Len(ws.images) = index
        /\ qr_codes_created = index
        /\ \A j \in 1..Len(ws.images) :
              /\ ws.images[j].row = (j - 1) + 2
              /\ ws.images[j].col = qrcode_column
              /\ letterIndex(ws.images[j].col) = nCols + 1
              /\ ws.images[j].img.data = toByteString(srcValues[j]).text
              /\ ws.align[<<(j - 1) + 2, nCols + 1>>]
                    = Alignment("center", "center", "None")

\* C4: rows are processed in input order; data row i gets exactly one image, at
\* row i + 2 of the destination column, encoding its own value; the created-count
\* is the number of images registered and never decreases, and an image once
\* registered stays where it is.
C4_RowOrderAndCount ==
    /\ []C4_ImagesInOrder
    /\ [][/\ qr_codes_created' >= qr_codes_created
          /\ index' >= index
          /\ index' <= index + 1
          /\ SubSeq(ws'.images, 1, Len(ws.images)) = ws.images]_vars

C4_Witness ==
    /\ pc = "summary"
    /\ index = 2
    /\ qr_codes_created = 2
    /\ srcValues = <<U1, U2>>
    /\ ws.images[1].img.data = U1.text
    /\ ws.images[2].img.data = U2.text
    /\ ws.images[2].row = 3

----------------------------------------------------------------------------
(* C5 *)

sameFont(f, g) ==
    /\ f.name = g.name
    /\ f.bold = g.bold
    /\ f.size = g.size
    /\ f.color = g.color

sameAlignment(a, b) ==
    /\ a.horizontal = b.horizontal
    /\ a.vertical = b.vertical

\* C5: wherever the source column stands, the "QrCode" header cell gets the font
\* and the alignment of the source column's header cell, and in the saved sheet
\* the two header cells have the same font and alignment.
C5_HeaderStyleCloned ==
    /\ (srcPos # 0 /\ pc \in {"sizes", "wrap"}) =>
          /\ sameFont(ws.cols[nCols + 1].font, disk.cols[srcPos].font)
          /\ sameAlignment(ws.align[<<1, nCols + 1>>], disk.align[<<1, srcPos>>])
    /\ (srcPos # 0 /\ saved # <<>>) =>
          LET out == saved[1].sheet
          IN  /\ sameFont(out.cols[nCols + 1].font, out.cols[srcPos].font)
              /\ sameAlignment(out.align[<<1, nCols + 1>>], out.align[<<1, srcPos>>])

----------------------------------------------------------------------------
(* C6 *)

\* C6: once the output column is prepared, every cell of the column named by
\* url_column_name has wrap_text set, whichever position the column has.
C6_SourceColumnWrapped ==
    (srcPos # 0 /\ pc \in {"loop", "summary"}) =>
        \A r \in 1..(nRows + 1) : ws.align[<<r, srcPos>>].wrap_text = "True"

----------------------------------------------------------------------------
(* C7 *)

RequiredKeys == {K_INPUT, K_URLCOL, K_OUTPUT}

\* line sets key k to a value that is not blank, read off the text of the line
setsValue(line, k) ==
    LET eq == find(line, "=", 1)
    IN  /\ eq > 1
        /\ \E i \in 1..(eq - 1) : line[i] = k[1]
        /\ \A i \in 1..(eq - 1) : line[i] \in {k[1], " "}
        /\ \E i \in (eq + 1)..Len(line) : line[i] # " "

\* settings.txt gives key k no value
missingOrBlank(k) ==
    ~\E i \in 1..Len(settingsTxt.lines) : setsValue(settingsTxt.lines[i], k)

\* C7: when input_file, url_column_name or output_file is missing or blank, main
\* prints an error and returns before the input file is read; it never reaches the
\* call of update_excel_with_qr_codes and no output is written.
C7_MissingSettingAborts ==
    ((\E k \in RequiredKeys : missingOrBlank(k)) /\ pc # "main") =>
        /\ pc \in {"check_settings", "done"}
        /\ inputReads = 0
        /\ saved = <<>>
        /\ output_path = <<>>
        /\ ws = NoSheet
        /\ ~df.loaded
        /\ (pc = "done" =>
              /\ Len(console) = 1
              /\ console[1].kind \in {"Error: Missing required settings",
                                      "Error: The settings file does not exist"})

C7_Witness ==
    /\ settingsTxt.exists
    /\ ~missingOrBlank(K_INPUT)
    /\ ~missingOrBlank(K_URLCOL)
    /\ missingOrBlank(K_OUTPUT)
    /\ Len(settingsTxt.lines) = 3
    /\ inputIsFile
    /\ pc = "done"
    /\ console = <<Line("Error: Missing required settings", 0, 0)>>

----------------------------------------------------------------------------
(* C8 *)

\* C8: an empty source cell is an error that aborts the run: no image is ever
\* made and placed for such a row, and the run does not go on past it.
C8_EmptyCellIsError ==
    srcPos # 0 =>
        /\ \A j \in 1..Len(ws.images) : ~srcValues[ws.images[j].row - 1].nan
        /\ \A k \in 1..Len(srcValues) : srcValues[k].nan => index < k

----------------------------------------------------------------------------
(* C9 *)

\* C9: for every number c >= 1 of columns, the destination column is column
\* c + 1; its letter is a valid column identifier naming that column, and the
\* header, the width and every image are put in that one column.
C9_DestinationColumn ==
    (srcPos # 0 /\ pc \notin {"call", "load"}) =>
        /\ max_column = nCols + 1
        /\ validLetter(qrcode_column)
        /\ letterIndex(qrcode_column) = max_column
        /\ ws.cols[max_column].name = QrCode
        /\ pc \notin {"header_style", "sizes"} =>
              /\ exc # "ValueError: not a valid coordinate"
              /\ DOMAIN ws.colWidth = {qrcode_column}
              /\ \A j \in 1..Len(ws.images) :
                    letterIndex(ws.images[j].col) = max_column

----------------------------------------------------------------------------
(* C10 *)

\* s without the suffix ".xlsx", when it ends with it
removeSuffix(s) ==
    IF Len(s) >= Len(XLSX) /\ SubSeq(s, Len(s) - Len(XLSX) + 1, Len(s)) = XLSX
    THEN SubSeq(s, 1, Len(s) - Len(XLSX))
    ELSE s

\* C10: the output path is output_file with ".xlsx" removed only when it ends the
\* name, then "_", the YYYYMMDD_HHMMSS timestamp and ".xlsx"; no other character
\* of the name is removed.
C10_OutputPath ==
    output_path # <<>> =>
        output_path = removeSuffix(output_file) \o <<"_">> \o strftime(clock) \o XLSX

====
